---- MODULE Spec2Model ----
(***************************************************************************)
(* Permit cards: signed QR credentials, the card URI, the online           *)
(* verification endpoint, the client's offline verification and its cache, *)
(* and the scanner page that drives a scan to a result.                    *)
(*                                                                         *)
(* A JavaScript string is a sequence of atoms.  An atom is one character   *)
(* ("+", "/", "=", "&", "?", " ", "A") or a run of characters that holds   *)
(* none of the characters URL parsing treats specially ("peche:", "R1",    *)
(* the digits of a number).  Bytes (a Buffer) are sequences of atoms too.  *)
(***************************************************************************)
EXTENDS Integers, Sequences, FiniteSets, Bags, TLC

(***************************************************************************)
(* Bounds of the model.                                                    *)
(***************************************************************************)
MaxPermits == 1
MaxTicks == 2
MaxScans == 1
MaxRapidScans == 2
MaxB64Len == 2
MaxRescans == 2
MaxOfflinePermits == 2
MaxSyncRuns == 2
MaxCacheCalls == 3
MaxFetches == 3

(***************************************************************************)
(* Time, in milliseconds since the process started.                        *)
(***************************************************************************)
maxAge == 24 * 60 * 60 * 1000

\* The instants the clock shows: the start, and the milliseconds around the
\* moment a credential issued at the start reaches the maximum age.
Times == {0} \cup ((maxAge - 1)..(maxAge - 1 + MaxTicks))

\* The decimal text of each number the payloads carry.
Decimal == [n \in Times \cup {1} |-> ToString(n)]

\* Date.now() rendered by JSON.stringify, and read back by JSON.parse.
NumToStr(n) == Decimal[n]

IsNumStr(a) == \E n \in Times \cup {1} : NumToStr(n) = a

StrToNum(a) == CHOOSE n \in Times \cup {1} : NumToStr(n) = a

(***************************************************************************)
(* Generic string helpers.                                                 *)
(***************************************************************************)
\* The value of a one-element set.  (A bound variable holds a value that is
\* computed once; the helpers below bind their text before they scan it.)
The(S) == CHOOSE x \in S : TRUE

\* String.indexOf: the first position >= i of text that holds atom a, 0 if
\* none.
IndexFrom(text, a, i) ==
  The({LET hits == {j \in i..Len(s) : s[j] = a}
       IN IF hits = {} THEN 0 ELSE CHOOSE j \in hits : \A k \in hits : j <= k
       : s \in {text}})

IndexOf(s, a) == IndexFrom(s, a, 1)

\* String.split on a one-character separator: the pieces between the
\* occurrences of the separator, in order.
SplitOn(text, a) ==
  The({LET seps == {j \in 1..Len(s) : s[j] = a}
           n == Cardinality(seps)
           SepAt(k) == CHOOSE j \in seps : Cardinality({x \in seps : x < j}) = k - 1
       IN [k \in 1..(n + 1) |->
             SubSeq(s, IF k = 1 THEN 1 ELSE SepAt(k - 1) + 1,
                       IF k = n + 1 THEN Len(s) ELSE SepAt(k) - 1)]
       : s \in {text}})

\* The atoms of s that are in keep, in order.
SelectAtoms(s, keep) == SelectSeq(s, LAMBDA x : x \in keep)

Absent == <<"<null>">>

(***************************************************************************)
(* Key material (qr-crypto.ts).                                            *)
(***************************************************************************)
NoKey == "unset"
EnvKeyPair == "envPair"
FirstGenerated == "generatedPair1"
SecondGenerated == "generatedPair2"

VARIABLES envPrivate, envPublic

\* PRIVATE_KEY: the private half of the key pair it comes from.
PRIVATE_KEY == IF envPrivate # NoKey THEN envPrivate ELSE FirstGenerated

\* PUBLIC_KEY: the public half of the key pair it comes from; without the
\* environment variable a second generateKeyPairSync call makes a new pair.
PUBLIC_KEY == IF envPublic # NoKey THEN envPublic ELSE SecondGenerated

getPublicKey == PUBLIC_KEY

(***************************************************************************)
(* Base64 and JSON as qr-crypto.ts uses them.                              *)
(***************************************************************************)
B64Marker == "b64"
B64Chars == {"A", "+", "/", "="}

SigMarker == "sig"

\* One character of the base64 text of `bytes`, standing for all of them.
\* The base64 of the ASCII JSON of a UUID and two numbers holds no '+' (a
\* '+' needs a '>' or '~' in the text).  The base64 of a signature's 64 bytes
\* holds a '+' for some messages and not for others; which ones is a fixed
\* property of the bytes, represented here by the time the message carries.
B64Sample(bytes) ==
  IF /\ Len(bytes) >= 6 /\ bytes[1] = SigMarker
     /\ \E n \in Times : n > 0 /\ NumToStr(n) = bytes[6]
  THEN "+" ELSE "A"

\* The last data character of a base64 text.  The 64 bytes of a signature
\* and the 70 bytes of a payload (a UUID, a 13-digit time, a version) leave
\* one byte for the last group: its second character carries four bits that
\* encode nothing.  The encoder writes them as zero (B64Tail); the decoder
\* does not look at them (B64TailAlias differs from B64Tail in those bits
\* only).
B64Tail == "Q"
B64TailAlias == "R"

\* Buffer.toString('base64').
Base64Encode(bytes) == <<B64Marker>> \o bytes \o <<B64Sample(bytes), B64Tail>>

\* Buffer.from(text, 'base64'): never throws; skips whitespace; ignores the
\* spare bits of the last character; a text that is no longer an encoding
\* of the bytes decodes to other bytes.
Base64Decode(text) ==
  LET t == SelectAtoms(text, {a \in {text[i] : i \in 1..Len(text)} : a # " "})
      body == SubSeq(t, 2, Len(t) - 2)
  IN IF /\ Len(t) >= 3 /\ Head(t) = B64Marker
        /\ t[Len(t) - 1] = B64Sample(body)
        /\ t[Len(t)] \in {B64Tail, B64TailAlias}
     THEN body
     ELSE <<"garbage">> \o t

\* A string that holds a double quote, and what escaping makes of it, once
\* and twice: '"' becomes '\"' and '\' becomes '\\'.
Escapes == <<"a\"b", "a\\\"b", "a\\\\\\\"b">>

\* The text of a string between the quotes of a JSON string literal.
JSONquote(str) ==
  IF \E i \in 1..(Len(Escapes) - 1) : Escapes[i] = str
  THEN Escapes[1 + CHOOSE i \in 1..(Len(Escapes) - 1) : Escapes[i] = str]
  ELSE str

\* The text between the quotes read as it is, escapes and all.
JSONunquoteRaw(text) == text

\* The string a JSON string literal stands for.
JSONunquote(text) ==
  IF \E i \in 2..Len(Escapes) : Escapes[i] = text
  THEN Escapes[(CHOOSE i \in 2..Len(Escapes) : Escapes[i] = text) - 1]
  ELSE text

\* JSON.stringify({id, ts, v}): fields in insertion order.
JSONstringify(q) ==
  <<"{id:", JSONquote(q.id), ",ts:", NumToStr(q.ts), ",v:", NumToStr(q.v), "}">>

\* A bare double quote ends the string literal early.
JSONvalid(s) ==
  /\ Len(s) = 7
  /\ s[1] = "{id:" /\ s[3] = ",ts:" /\ s[5] = ",v:" /\ s[7] = "}"
  /\ s[2] # Escapes[1]
  /\ IsNumStr(s[4]) /\ IsNumStr(s[6])

\* JSON.parse of a text JSONvalid accepts (it throws on any other).
JSONparse(s) ==
  [id |-> JSONunquote(s[2]), ts |-> StrToNum(s[4]), v |-> StrToNum(s[6])]

(***************************************************************************)
(* Ed25519, abstractly: a signature names the key pair whose private half  *)
(* made it and the exact bytes it was made over.                           *)
(***************************************************************************)
\* A signature that depends on the key alone and not on the bytes signed.
CryptoSignKeyOnly(bytes, privateKey) == <<SigMarker, privateKey>>

\* crypto.sign('sha256', bytes, PRIVATE_KEY), with a key whose type takes
\* the digest argument.
CryptoSign(bytes, privateKey) == <<SigMarker, privateKey>> \o bytes

\* crypto.verify('sha256', bytes, PUBLIC_KEY, signatureBytes)
CryptoVerify(bytes, publicKey, sigBytes) ==
  /\ Len(sigBytes) >= 2
  /\ sigBytes[1] = SigMarker
  /\ sigBytes[2] = publicKey
  /\ SubSeq(sigBytes, 3, Len(sigBytes)) = bytes

\* generateQRPayload(permitId) at time t.
generateQRPayload(permitId, t) ==
  LET qrData == [id |-> permitId, ts |-> t, v |-> 1]
      payload == JSONstringify(qrData)
  IN [payload |-> Base64Encode(payload),
      signature |-> Base64Encode(CryptoSign(payload, PRIVATE_KEY))]

Null == [id |-> "<null>", ts |-> 0, v |-> 0]

StaleSeconds(t, ts) == t - ts > 24 * 60 * 60

\* if (Date.now() - qrData.ts > maxAge) return null
Stale(t, ts) == t - ts > maxAge

\* verifyQRSignature(payload, signature) at time t: the QRPayload, or Null.
verifyQRSignature(payload, signature, t) ==
  LET payloadBuffer == Base64Decode(payload)
      signatureBuffer == Base64Decode(signature)
  IN IF ~CryptoVerify(payloadBuffer, PUBLIC_KEY, signatureBuffer) THEN Null
     ELSE IF ~JSONvalid(payloadBuffer) THEN Null
     ELSE IF Stale(t, JSONparse(payloadBuffer).ts) THEN Null
     ELSE JSONparse(payloadBuffer)

(***************************************************************************)
(* The card URI: built by the PDF route, parsed by `new URL` and            *)
(* URLSearchParams.                                                        *)
(***************************************************************************)
\* `peche://verify?d=${card.qrPayload}&s=${card.qrSignature}`
ToURI(qrPayload, qrSignature) ==
  <<"peche:", "//", "verify", "?", "d", "=">> \o qrPayload
    \o <<"&", "s", "=">> \o qrSignature

Schemes == {"peche:", "http:"}

\* new URL(text) throws unless the text starts with a scheme.
URLValid(text) == Len(text) >= 1 /\ text[1] \in Schemes

URLprotocol(text) == text[1]

URLhostname(text) ==
  IF Len(text) >= 3 /\ text[2] = "//" /\ text[3] # "?" THEN text[3] ELSE ""

\* The query: what follows the first '?'.
URLquery(text) ==
  LET i == IndexOf(text, "?") IN
  IF i = 0 THEN <<>> ELSE SubSeq(text, i + 1, Len(text))

\* application/x-www-form-urlencoded decoding of a name or value: every
\* '+' becomes a space (the texts here hold no percent escapes).
FormDecode(s) == [i \in 1..Len(s) |-> IF s[i] = "+" THEN " " ELSE s[i]]

PairName(pair) ==
  The({FormDecode(IF i = 0 THEN pair ELSE SubSeq(pair, 1, i - 1))
       : i \in {IndexOf(pair, "=")}})

PairValue(pair) ==
  The({FormDecode(IF i = 0 THEN <<>> ELSE SubSeq(pair, i + 1, Len(pair)))
       : i \in {IndexOf(pair, "=")}})

\* url.searchParams.get(name): the value of the first pair of that name,
\* Absent (null) if there is none.
SearchParamsGet(text, name) ==
  The({LET hits == {i \in 1..Len(pairs) :
                      pairs[i] # <<>> /\ PairName(pairs[i]) = <<name>>}
       IN IF hits = {} THEN Absent
          ELSE PairValue(pairs[CHOOSE i \in hits : \A j \in hits : i <= j])
       : pairs \in {SplitOn(URLquery(text), "&")}})

\* !value of a string or null: null and the empty string are falsy.
Falsy(value) == value = Absent \/ value = <<>>

(***************************************************************************)
(* State.                                                                  *)
(***************************************************************************)
VARIABLES
  now,          \* Date.now()
  permits,      \* MemStorage.permits, each with what getPermit joins to it
  cards,        \* MemStorage.cards
  scanLogs,     \* MemStorage.scanLogs, in insertion order
  cache,        \* the 'cards' object store of OfflineStorage (IndexedDB)
  onLine,       \* navigator.onLine
  swControlled, \* the service worker controls the page
  mounted,      \* the QRScanner page is mounted
  qrcode,       \* QRScanner.qrcode: "null", "running" or "stopping"
  cbProcessing, \* isProcessing as the registered handleScanSuccess sees it
  isProcessing, \* React state of the page
  isScanning,   \* React state of the page
  scanResult,   \* React state of the page
  calls,        \* the verifyQRCode calls that have not returned to the page
  scans,        \* number of verifyQRCode calls started so far
  codec,        \* the card URI codec applied to one credential
  idbBooleanKeys, \* what the IndexedDB engine does with a boolean key
  offlinePermits, \* the 'permits' object store of OfflineStorage
  syncStatus,   \* React state of AgentDashboard
  syncRuns,     \* 'online' events and syncWithServer calls under way
  posted,       \* per offline permit, the POSTs the server answered ok
  cacheCalls,   \* the cachePermit and getCachedPermit calls made, in order
  parts,        \* MemStorage.vessels, techniques and media
  deleted,      \* the cards deletePermit has removed (their prints remain)
  swCache,      \* the service worker's cache, by /api/ URL
  fetches       \* the /api/ fetch events the service worker has handled

vars == <<envPrivate, envPublic, now, permits, cards, scanLogs, cache, onLine,
          swControlled, mounted, qrcode, cbProcessing, isProcessing,
          isScanning, scanResult, calls, scans, codec, idbBooleanKeys,
          offlinePermits, syncStatus, syncRuns, posted, cacheCalls, parts,
          deleted, swCache, fetches>>

keyVars == <<envPrivate, envPublic>>
syncVars == <<idbBooleanKeys, offlinePermits, syncStatus, syncRuns, posted>>
serverVars == <<permits, cards, scanLogs>>
partVars == <<parts, deleted>>
workerVars == <<swCache, fetches>>
pageVars == <<mounted, qrcode, cbProcessing, isProcessing, isScanning, scanResult>>

IdOrder == <<"R1", "R2", "R3">>

Ids == {IdOrder[n] : n \in 1..MaxPermits}

\* randomUUID(): an id no permit has yet (the first unused one).
Issued == {p.id : p \in permits} \cup {c.permitId : c \in deleted}

FreshId == IdOrder[Cardinality(Issued) + 1]

\* The expiration dates permits are created with.
ExpDates == {maxAge - 1}

NoRecord == [numSerie |-> "", dateExpiration |-> 0]

NoResult == [result |-> "", permit |-> NoRecord, message |-> ""]

CodecIdle ==
  [payload |-> <<>>, signature |-> <<>>, uri |-> <<>>, d |-> <<>>, s |-> <<>>,
   id |-> "", ts |-> 0, decoded |-> Null,
   payload2 |-> <<>>, signature2 |-> <<>>, ts2 |-> 0, step |-> "idle"]

(***************************************************************************)
(* MemStorage.                                                             *)
(***************************************************************************)
\* storage.getPermit(id): the set holding the permit, empty if undefined.
getPermit(id) == {p \in permits : p.id = id}

getCardByPermitId(permitId) == {c \in cards : c.permitId = permitId}

CardIdOf(permitId) == <<"card", permitId>>

NullCardId == <<"<null>">>

\* A store that keeps one entry: the new log takes the place of the last.
createScanLogOverwrite(logs, logData) ==
  <<[id |-> <<"log", 1>>,
     cardId |-> logData.cardId, agentId |-> logData.agentId,
     result |-> logData.result, mode |-> logData.mode, scanDate |-> now]>>

\* storage.createScanLog(logData): the store after it.  The id is a
\* randomUUID(), different from every id given before.
createScanLog(logs, logData) ==
  Append(logs, [id |-> <<"log", Len(logs) + 1>>,
                cardId |-> logData.cardId, agentId |-> logData.agentId,
                result |-> logData.result, mode |-> logData.mode,
                scanDate |-> now])

(***************************************************************************)
(* POST /api/permits and the clock.                                        *)
(***************************************************************************)
PartKinds == {"vessel", "technique", "media"}

\* The vessel, the technique and the photo createPermit stores for a
\* permit entered with all three.
PartsOf(permitId) ==
  {[kind |-> k, id |-> <<k, permitId>>, permitId |-> permitId] : k \in PartKinds}

\* storage.createPermit then generateQRPayload then storage.createCard.
CreatePermit(id, exp) ==
  /\ id \notin Issued
  /\ LET qr == generateQRPayload(id, now) IN
     /\ permits' = permits \cup {[id |-> id, numSerie |-> id, dateExpiration |-> exp]}
     /\ parts' = parts \cup PartsOf(id)
     /\ cards' = cards \cup {[id |-> CardIdOf(id), permitId |-> id,
                               qrPayload |-> qr.payload,
                               qrSignature |-> qr.signature, version |-> 1]}
  /\ UNCHANGED <<keyVars, workerVars, deleted, cacheCalls, syncVars, now, scanLogs, cache,
                 onLine, swControlled, pageVars, calls, scans, codec>>

\* POST /api/permits where generateQRPayload throws (crypto.sign rejects
\* the key or the digest): storage.createPermit has stored the permit, the
\* route's catch answers 500, and nothing takes the permit out again.
CreatePermitSigningFails(id, exp) ==
  /\ id \notin Issued
  /\ permits' = permits \cup {[id |-> id, numSerie |-> id, dateExpiration |-> exp]}
  /\ parts' = parts \cup PartsOf(id)
  /\ UNCHANGED <<keyVars, workerVars, deleted, cacheCalls, syncVars, now, cards, scanLogs,
                 cache, onLine, swControlled, pageVars, calls, scans, codec>>

\* A deletion that removes what hangs on the permit and leaves the permit.
DeletePermitPartsOnly(id) ==
  /\ getPermit(id) # {}
  /\ parts' = {x \in parts : x.permitId # id}
  /\ cards' = {c \in cards : c.permitId # id}
  /\ deleted' = deleted \cup {c \in cards : c.permitId = id}
  /\ UNCHANGED <<keyVars, workerVars, cacheCalls, syncVars, now, permits, scanLogs, cache,
                 onLine, swControlled, pageVars, calls, scans, codec>>

\* storage.deletePermit(id) returning true: the vessels, techniques, media
\* and cards of the permit are deleted, then the permit.
DeletePermit(id) ==
  /\ getPermit(id) # {}
  /\ parts' = {x \in parts : x.permitId # id}
  /\ cards' = {c \in cards : c.permitId # id}
  /\ permits' = {p \in permits : p.id # id}
  /\ deleted' = deleted \cup {c \in cards : c.permitId = id}
  /\ UNCHANGED <<keyVars, workerVars, cacheCalls, syncVars, now, scanLogs, cache, onLine,
                 swControlled, pageVars, calls, scans, codec>>

\* Time passes: to the last millisecond before the maximum credential age
\* has gone by since the start, then millisecond by millisecond.
Tick(d) ==
  /\ \/ d = maxAge - 1 /\ now = 0
     \/ d = 1 /\ now >= maxAge - 1 /\ now + 1 \in Times
  /\ now' = now + d
  /\ UNCHANGED <<keyVars, workerVars, partVars, cacheCalls, syncVars, serverVars, cache, onLine, swControlled, pageVars,
                 calls, scans, codec>>

(***************************************************************************)
(* POST /api/scans/verify.                                                 *)
(***************************************************************************)
ExpiredStrict(expiration, t) == expiration < t

\* const isExpired = expiration <= now
Expired(expiration, t) == expiration <= t

PermitOut(p) == [numSerie |-> p.numSerie, dateExpiration |-> p.dateExpiration]

Response(status, result, permit, message) ==
  [status |-> status, result |-> result, permit |-> permit, message |-> message]

\* The response of the route to the request body {qrData} at the current
\* time, with the storage reachable.
VerifyResponse(qrData) ==
  IF ~URLValid(qrData) THEN Response(500, "", NoRecord, "Failed to verify QR code")
  ELSE IF URLprotocol(qrData) # "peche:" \/ URLhostname(qrData) # "verify"
  THEN Response(400, "", NoRecord, "Invalid QR code format")
  ELSE LET payload == SearchParamsGet(qrData, "d")
           signature == SearchParamsGet(qrData, "s")
       IN
  IF Falsy(payload) \/ Falsy(signature)
  THEN Response(400, "", NoRecord, "Missing QR code data")
  ELSE LET qrPayload == verifyQRSignature(payload, signature, now) IN
  IF qrPayload = Null
  THEN Response(400, "invalid", NoRecord, "Invalid QR code signature")
  ELSE IF getPermit(qrPayload.id) = {}
  THEN Response(404, "invalid", NoRecord, "Permit not found")
  ELSE LET permit == CHOOSE p \in getPermit(qrPayload.id) : TRUE IN
  IF Expired(permit.dateExpiration, now)
  THEN Response(200, "expired", PermitOut(permit), "Permit has expired")
  ELSE Response(200, "valid", PermitOut(permit), "Valid permit")

\* The scan log the route writes for the request: only a request that
\* reaches the expiry check writes one.
VerifyLogs(qrData) ==
  LET r == VerifyResponse(qrData) IN
  IF r.status # 200 THEN scanLogs
  ELSE LET card == getCardByPermitId(
                     verifyQRSignature(SearchParamsGet(qrData, "d"),
                                       SearchParamsGet(qrData, "s"), now).id)
       IN createScanLog(scanLogs,
            [cardId |-> IF card = {} THEN NullCardId
                        ELSE (CHOOSE c \in card : TRUE).id,
             agentId |-> "<null>", result |-> r.result, mode |-> "online"])

(***************************************************************************)
(* OfflineStorage: the verification cache.                                 *)
(***************************************************************************)
\* A put that leaves an entry that is already there as it is.
cachePermitKeepFirst(store, permit) ==
  IF \E e \in store : e.id = <<permit.id>> THEN store
  ELSE store \cup {[id |-> <<permit.id>>, permitId |-> <<permit.id>>,
                     data |-> permit]}

\* store.put({id: permit.id, permitId: permit.id, data: permit, cachedAt})
\* on a store whose keyPath is 'id': the entry of that key is replaced.
\* (cachedAt is written and never read; the entry is kept without it.)
cachePermit(store, permit) ==
  {e \in store : e.id # <<permit.id>>}
    \cup {[id |-> <<permit.id>>, permitId |-> <<permit.id>>, data |-> permit]}

\* A lookup that decodes a payload it is given and takes the record id the
\* payload names as the key.
getCachedPermitOfPayload(id) ==
  {e.data : e \in {x \in cache :
     x.id = IF JSONvalid(Base64Decode(id))
            THEN <<JSONparse(Base64Decode(id)).id>> ELSE id}}

\* store.get(id): the set holding result.data, empty if null.
getCachedPermit(id) == {e.data : e \in {x \in cache : x.id = id}}

\* A record the device has fetched from the server is put in the cache.
CachePermit(p) ==
  /\ p \in permits
  /\ cache' = cachePermit(cache, p)
  /\ UNCHANGED <<keyVars, workerVars, partVars, cacheCalls, syncVars, now, serverVars, onLine, swControlled, pageVars,
                 calls, scans, codec>>

\* The snapshots of records a device may be handed: each record id with
\* one expiration date or another.
Snapshots ==
  {[id |-> id, numSerie |-> id, dateExpiration |-> exp] :
     id \in {IdOrder[1], IdOrder[2]}, exp \in {maxAge - 1, maxAge}}

\* A call of cachePermit(permit), noted with its argument.
CachePermitCall(permit) ==
  /\ Len(cacheCalls) < MaxCacheCalls
  /\ cache' = cachePermit(cache, permit)
  /\ cacheCalls' = Append(cacheCalls, [op |-> "put", id |-> <<permit.id>>,
                                       data |-> {permit}])
  /\ UNCHANGED <<keyVars, workerVars, partVars, syncVars, now, serverVars, onLine, swControlled,
                 pageVars, calls, scans, codec>>

\* A call of getCachedPermit(id), noted with what it resolved to (the empty
\* set for null). The transaction is 'readonly'.
GetCachedPermitCall(id) ==
  /\ Len(cacheCalls) < MaxCacheCalls
  /\ cacheCalls' = Append(cacheCalls, [op |-> "get", id |-> id,
                                       data |-> getCachedPermit(id)])
  /\ UNCHANGED <<keyVars, workerVars, partVars, syncVars, now, serverVars, cache, onLine,
                 swControlled, pageVars, calls, scans, codec>>

(***************************************************************************)
(* QRScanner.verifyQRCode and verifyOffline (qr-utils).                    *)
(***************************************************************************)
ScanResult(result, permit, message) ==
  [result |-> result, permit |-> permit, message |-> message]

HostsWithPrefixVerify == {"verify", "verify.example"}

\* qrData.startsWith('peche://verify')
StartsWithPecheVerify(text) ==
  /\ Len(text) >= 3
  /\ text[1] = "peche:" /\ text[2] = "//" /\ text[3] \in HostsWithPrefixVerify

\* verifyOffline(qrData) at the current time.
verifyOffline(qrData) ==
  IF ~URLValid(qrData)
  THEN ScanResult("invalid", NoRecord, "Erreur lors de la verification hors ligne")
  ELSE LET permitId == SearchParamsGet(qrData, "d") IN
  IF Falsy(permitId)
  THEN ScanResult("invalid", NoRecord, "QR code invalide - Donnees manquantes")
  ELSE IF getCachedPermit(permitId) = {}
  THEN ScanResult("invalid", NoRecord, "Permit non trouve en cache local")
  ELSE LET cachedPermit == CHOOSE p \in getCachedPermit(permitId) : TRUE IN
  IF Expired(cachedPermit.dateExpiration, now)
  THEN ScanResult("expired", PermitOut(cachedPermit), "Permis expire")
  ELSE ScanResult("valid", PermitOut(cachedPermit),
                  "Permis valide (verification hors ligne)")

NoResponse == Response(0, "", NoRecord, "")

\* A rejected fetch (no Response at all).
Rejected == Response(-1, "", NoRecord, "")

\* The argument verifyOffline passes to getCachedPermit, Absent when it
\* returns before the lookup.
LookupKey(qrData) ==
  IF ~URLValid(qrData) \/ Falsy(SearchParamsGet(qrData, "d")) THEN Absent
  ELSE SearchParamsGet(qrData, "d")

\* verifyQRCode up to its first await: the format check, then the fetch if
\* navigator.onLine, else the offline verification.
StartCall(n, qrData) ==
  [n |-> n, qrData |-> qrData, online |-> NoResponse, at |-> 0,
   offlineRuns |-> 0, logs |-> 0, key |-> Absent,
   pc |-> IF ~StartsWithPecheVerify(qrData) THEN "return"
          ELSE IF onLine THEN "fetch" ELSE "offline",
   result |-> IF ~StartsWithPecheVerify(qrData)
              THEN ScanResult("invalid", NoRecord,
                              "QR code invalide - Format non reconnu")
              ELSE NoResult]

\* verifyQRCode after the fetch resolved with `response`:
\* if (response.ok) return await response.json(); else verifyOffline.
AfterResponse(c, response, wrote) ==
  IF response.status = 200
  THEN [c EXCEPT !.online = response, !.at = now, !.logs = @ + wrote,
                 !.pc = "return",
                 !.result = ScanResult(response.result, response.permit,
                                       response.message)]
  ELSE [c EXCEPT !.online = response, !.at = now, !.logs = @ + wrote,
                 !.pc = "offline"]

\* The request reaches the server and the route answers it.
ServerAnswers(c) ==
  /\ c \in calls /\ c.pc = "fetch"
  /\ LET r == VerifyResponse(c.qrData) IN
     /\ scanLogs' = VerifyLogs(c.qrData)
     /\ calls' = (calls \ {c})
          \cup {AfterResponse(c, r, Len(VerifyLogs(c.qrData)) - Len(scanLogs))}
  /\ UNCHANGED <<keyVars, workerVars, partVars, cacheCalls, syncVars, now, permits, cards, cache, onLine, swControlled,
                 pageVars, scans, codec>>

\* The request reaches the server and the record store fails: the route's
\* catch answers 500.
ServerStoreFails(c) ==
  /\ c \in calls /\ c.pc = "fetch"
  /\ calls' = (calls \ {c})
       \cup {AfterResponse(c, Response(500, "", NoRecord, "Failed to verify QR code"), 0)}
  /\ UNCHANGED <<keyVars, workerVars, partVars, cacheCalls, syncVars, now, serverVars, cache, onLine, swControlled,
                 pageVars, scans, codec>>

\* The request does not reach the server.  A controlling service worker
\* answers a failed non-GET /api/ request with 503; without one the fetch
\* rejects and verifyQRCode's catch returns.
NetworkFails(c) ==
  /\ c \in calls /\ c.pc = "fetch"
  /\ calls' = (calls \ {c}) \cup
       {IF swControlled
        THEN AfterResponse(c, Response(503, "", NoRecord,
                                       "Cannot perform this action while offline"), 0)
        ELSE [c EXCEPT !.online = Rejected, !.at = now, !.pc = "return",
                       !.result = ScanResult("invalid", NoRecord,
                                    "Erreur lors de la verification du QR code")]}
  /\ UNCHANGED <<keyVars, workerVars, partVars, cacheCalls, syncVars, now, serverVars, cache, onLine, swControlled,
                 pageVars, scans, codec>>

\* return await this.verifyOffline(qrData)
OfflineVerify(c) ==
  /\ c \in calls /\ c.pc = "offline"
  /\ calls' = (calls \ {c})
       \cup {[c EXCEPT !.offlineRuns = @ + 1, !.at = now, !.pc = "return",
                       !.key = LookupKey(c.qrData),
                       !.result = verifyOffline(c.qrData)]}
  /\ UNCHANGED <<keyVars, workerVars, partVars, cacheCalls, syncVars, now, serverVars, cache, onLine, swControlled,
                 pageVars, scans, codec>>

\* The rejection of getCachedPermit leaving verifyQRCode as it is, with no
\* result object.
OfflineStoreThrows(c) ==
  /\ c \in calls /\ c.pc = "offline"
  /\ calls' = (calls \ {c})
       \cup {[c EXCEPT !.offlineRuns = @ + 1, !.at = now, !.pc = "return"]}
  /\ UNCHANGED <<keyVars, workerVars, partVars, cacheCalls, syncVars, now, serverVars, cache, onLine, swControlled,
                 pageVars, scans, codec>>

\* verifyOffline when offlineStorage.getCachedPermit rejects (IndexedDB
\* cannot be opened or read): its catch returns.
OfflineStoreFails(c) ==
  /\ c \in calls /\ c.pc = "offline"
  /\ URLValid(c.qrData) /\ ~Falsy(SearchParamsGet(c.qrData, "d"))
  /\ calls' = (calls \ {c})
       \cup {[c EXCEPT !.offlineRuns = @ + 1, !.at = now, !.pc = "return",
                       !.key = LookupKey(c.qrData),
                       !.result = ScanResult("invalid", NoRecord,
                                    "Erreur lors de la verification hors ligne")]}
  /\ UNCHANGED <<keyVars, workerVars, partVars, cacheCalls, syncVars, now, serverVars, cache, onLine, swControlled,
                 pageVars, scans, codec>>

(***************************************************************************)
(* The QRScanner page (scanner.tsx) and the camera scanner.                *)
(***************************************************************************)
\* What a camera can decode: a printed card, a code made by someone else
\* that names a permit id, a code of another application.
ScanTexts ==
  {ToURI(c.qrPayload, c.qrSignature) : c \in cards}
    \cup {<<"peche:", "//", "verify", "?", "d", "=", id, "&", "s", "=", "AAAA">> : id \in Ids}
    \cup {<<"http:", "//", "example.org">>}

\* Codes that are not card URIs although they begin like one: another
\* host, the s parameter missing, the d parameter missing.
MalformedTexts ==
  {<<"peche:", "//", "verify.example", "?", "d", "=", id, "&", "s", "=", "AAAA">> : id \in Ids}
    \cup {<<"peche:", "//", "verify", "?", "d", "=", id>> : id \in Ids}
    \cup {<<"peche:", "//", "verify", "?", "s", "=", "AAAA">>}

\* s with the atom at position i replaced by a.
Alter(s, i, a) == [s EXCEPT ![i] = a]

\* What a character of a credential can be changed into: another record
\* id, another time, another character, the other spelling of the last
\* character.
TamperAtoms ==
  {IdOrder[n] : n \in 1..Len(IdOrder)} \cup {Decimal[n] : n \in Times}
    \cup {"X", B64TailAlias}

\* The credentials that differ from the card's in one place of the payload
\* or in one place of the signature.
TamperedCredentials(k) ==
  ({[payload |-> Alter(k.qrPayload, i, a), signature |-> k.qrSignature] :
      i \in 2..Len(k.qrPayload), a \in TamperAtoms} \cup
   {[payload |-> k.qrPayload, signature |-> Alter(k.qrSignature, i, a)] :
      i \in 2..Len(k.qrSignature), a \in TamperAtoms})
  \ {[payload |-> k.qrPayload, signature |-> k.qrSignature]}

TamperedTexts ==
  {ToURI(x.payload, x.signature) : x \in UNION {TamperedCredentials(k) : k \in cards}}

\* The printed cards of deleted permits.
DeletedTexts == {ToURI(c.qrPayload, c.qrSignature) : c \in deleted}

\* stopCameraScanner(): if (this.qrcode) this.qrcode.stop().then(...)
stopCameraScanner(q) == IF q = "running" THEN "stopping" ELSE q

\* The page mounts: fresh React state, then the effect runs startScanner
\* with the view's div mounted; the scanner is given this render's
\* handleScanSuccess.
Mount ==
  /\ ~mounted /\ qrcode = "null" /\ calls = {}
  /\ mounted' = TRUE
  /\ scanResult' = NoResult
  /\ isProcessing' = FALSE
  /\ isScanning' = TRUE
  /\ qrcode' = "running"
  /\ cbProcessing' = FALSE
  /\ UNCHANGED <<keyVars, workerVars, partVars, cacheCalls, syncVars, now, serverVars, cache, onLine, swControlled, calls,
                 scans, codec>>

\* The camera scanner decodes a code and calls the success callback it was
\* given: handleScanSuccess(decodedText), then stopCameraScanner().
HandleScanSuccess(text) ==
  /\ qrcode \in {"running", "stopping"}
  /\ text \in ScanTexts \cup MalformedTexts \cup TamperedTexts
               \cup DeletedTexts
  /\ qrcode' = stopCameraScanner(qrcode)
  /\ IF cbProcessing
     THEN UNCHANGED <<isProcessing, calls, scans>>
     ELSE /\ isProcessing' = TRUE
          /\ calls' = calls \cup {StartCall(scans + 1, text)}
          /\ scans' = scans + 1
  /\ UNCHANGED <<keyVars, workerVars, partVars, cacheCalls, syncVars, now, serverVars, cache, onLine, swControlled, mounted,
                 cbProcessing, isScanning, scanResult, codec>>

\* this.qrcode.stop() resolves: this.qrcode = null.
StopCompletes ==
  /\ qrcode = "stopping"
  /\ qrcode' = "null"
  /\ UNCHANGED <<keyVars, workerVars, partVars, cacheCalls, syncVars, now, serverVars, cache, onLine, swControlled, mounted,
                 cbProcessing, isProcessing, isScanning, scanResult, calls,
                 scans, codec>>

\* handleScanSuccess after `await qrScanner.verifyQRCode(decodedText)`.
FinishScan(c) ==
  /\ c \in calls /\ c.pc = "return"
  /\ scanResult' = c.result
  /\ isScanning' = FALSE
  /\ isProcessing' = FALSE
  /\ calls' = calls \ {c}
  /\ UNCHANGED <<keyVars, workerVars, partVars, cacheCalls, syncVars, now, serverVars, cache, onLine, swControlled, mounted,
                 qrcode, cbProcessing, scans, codec>>

\* scannerRef.current: the scanner view's div is rendered only while there
\* is no result and nothing is processing.
ScannerRefSet == scanResult = NoResult /\ ~isProcessing

\* handleScanAgain: setScanResult(null); startScanner().  startScanner
\* returns at once when scannerRef.current is null.
ScanAgain ==
  /\ mounted /\ scanResult # NoResult
  /\ scanResult' = NoResult
  /\ IF ScannerRefSet
     THEN isScanning' = TRUE /\ qrcode' = "running" /\ cbProcessing' = isProcessing
     ELSE UNCHANGED <<isScanning, qrcode, cbProcessing>>
  /\ UNCHANGED <<keyVars, workerVars, partVars, cacheCalls, syncVars, now, serverVars, cache, onLine, swControlled, mounted,
                 isProcessing, calls, scans, codec>>

\* handleClose: stop the scanners and leave the page; the unmounted
\* component's React state is gone.
Close ==
  /\ mounted /\ calls = {}
  /\ qrcode' = stopCameraScanner(qrcode)
  /\ mounted' = FALSE
  /\ scanResult' = NoResult
  /\ isProcessing' = FALSE
  /\ isScanning' = FALSE
  /\ cbProcessing' = FALSE
  /\ UNCHANGED <<keyVars, workerVars, partVars, cacheCalls, syncVars, now, serverVars, cache, onLine, swControlled, calls,
                 scans, codec>>

\* The browser's online and offline events.
SetOnLine(b) ==
  /\ onLine # b
  /\ onLine' = b
  /\ UNCHANGED <<keyVars, workerVars, partVars, cacheCalls, syncVars, now, serverVars, cache, swControlled, pageVars, calls,
                 scans, codec>>

\* The registered service worker activates and claims the page.
ServiceWorkerClaims ==
  /\ ~swControlled
  /\ swControlled' = TRUE
  /\ UNCHANGED <<keyVars, workerVars, partVars, cacheCalls, syncVars, now, serverVars, cache, onLine, pageVars, calls, scans,
                 codec>>

(***************************************************************************)
(* The card URI codec on its own: one credential, built into a URI by the  *)
(* PDF route and parsed back by the verification route.                    *)
(***************************************************************************)
RECURSIVE TextsUpTo(_)
TextsUpTo(n) ==
  IF n = 0 THEN {<<>>}
  ELSE TextsUpTo(n - 1) \cup {Append(t, a) : t \in TextsUpTo(n - 1), a \in B64Chars}

\* Base64 texts: '=' only as trailing padding.
B64Texts ==
  {t \in TextsUpTo(MaxB64Len) :
     /\ t # <<>> /\ t[1] # "="
     /\ \A i \in 1..Len(t) : t[i] = "=" => \A j \in i..Len(t) : t[j] = "="}

CodecBuild ==
  /\ codec.step = "credential"
  /\ codec' = [codec EXCEPT !.uri = ToURI(codec.payload, codec.signature),
                            !.step = "uri"]
  /\ UNCHANGED <<keyVars, workerVars, partVars, cacheCalls, syncVars, now, serverVars, cache, onLine, swControlled, pageVars,
                 calls, scans>>

CodecParse ==
  /\ codec.step = "uri"
  /\ codec' = [codec EXCEPT !.d = SearchParamsGet(codec.uri, "d"),
                            !.s = SearchParamsGet(codec.uri, "s"),
                            !.step = "parsed"]
  /\ UNCHANGED <<keyVars, workerVars, partVars, cacheCalls, syncVars, now, serverVars, cache, onLine, swControlled, pageVars,
                 calls, scans>>

\* The record ids handed to generateQRPayload: ids as randomUUID makes them,
\* the empty string, and strings JSON has to escape.
PayloadIds == {"", IdOrder[1], IdOrder[2], Escapes[1], Escapes[2]}

\* generateQRPayload(permitId) at Date.now().
CodecSign(permitId) ==
  /\ codec.step = "idle"
  /\ codec' = [codec EXCEPT !.id = permitId, !.ts = now,
                            !.payload = generateQRPayload(permitId, now).payload,
                            !.signature = generateQRPayload(permitId, now).signature,
                            !.step = "signed"]
  /\ UNCHANGED <<keyVars, workerVars, partVars, cacheCalls, syncVars, now, serverVars, cache, onLine,
                 swControlled, pageVars, calls, scans>>

\* A second generateQRPayload(permitId) for the same record id, at
\* Date.now().
CodecReissue ==
  /\ codec.step = "signed"
  /\ codec' = [codec EXCEPT
                 !.ts2 = now,
                 !.payload2 = generateQRPayload(codec.id, now).payload,
                 !.signature2 = generateQRPayload(codec.id, now).signature,
                 !.step = "reissued"]
  /\ UNCHANGED <<keyVars, workerVars, partVars, cacheCalls, syncVars, now, serverVars, cache, onLine,
                 swControlled, pageVars, calls, scans>>

\* The decoding verifyQRSignature does:
\* JSON.parse(Buffer.from(payload, 'base64').toString()), Null where
\* JSON.parse throws.
CodecDecode ==
  /\ codec.step = "signed"
  /\ codec' = [codec EXCEPT
                 !.decoded = IF JSONvalid(Base64Decode(codec.payload))
                             THEN JSONparse(Base64Decode(codec.payload))
                             ELSE Null,
                 !.step = "decoded"]
  /\ UNCHANGED <<keyVars, workerVars, partVars, cacheCalls, syncVars, now, serverVars, cache, onLine,
                 swControlled, pageVars, calls, scans>>

(***************************************************************************)
(* Offline permits and their synchronisation: OfflineStorage.savePermit,    *)
(* getUnsyncedPermits, markPermitSynced and syncWithServer, driven by       *)
(* AgentDashboard.handleOnline and handleSync.                              *)
(***************************************************************************)
OfflineIdOrder == <<"o1", "o2", "o3">>

OfflineIds == {OfflineIdOrder[n] : n \in 1..MaxOfflinePermits}

\* The engines differ in one thing the code relies on. IndexedDB keys are
\* numbers, dates, strings, binaries and arrays: an engine that follows the
\* standard throws DataError on IDBKeyRange.only(false) and leaves a record
\* whose `synced` is a boolean out of the 'synced' index ("DataError"); the
\* other outcome is an engine that takes booleans as keys ("accepted").
IdbEngines == {"DataError", "accepted"}

\* savePermit(permit), reached from the permit form when navigator.onLine
\* is false: a record with a fresh id and synced: false.
SavePermit ==
  /\ ~onLine
  /\ Cardinality(offlinePermits) < MaxOfflinePermits
  /\ offlinePermits' = offlinePermits \cup
       {[id |-> OfflineIdOrder[Cardinality(offlinePermits) + 1],
         synced |-> FALSE]}
  /\ UNCHANGED <<keyVars, workerVars, partVars, cacheCalls, idbBooleanKeys, syncStatus, syncRuns, posted, now,
                 serverVars, cache, onLine, swControlled, pageVars, calls,
                 scans, codec>>

\* syncRuns is a bag: two calls can be at the same point with the same
\* counts.
Runs == BagToSet(syncRuns)

AddRun(r) == syncRuns (+) SetToBag({r})

DropRun(r) == syncRuns (-) SetToBag({r})

ReplaceRun(r, r2) == (syncRuns (-) SetToBag({r})) (+) SetToBag({r2})

\* `live`: the AgentDashboard instance whose handler started the call is
\* still the mounted one, so that its setSyncStatus is seen.
NewRun(pc) ==
  [pc |-> pc, queue |-> <<>>, success |-> 0, failed |-> 0, live |-> TRUE]

\* The connection is lost; nothing listens to 'offline' but App's banner.
GoesOffline ==
  /\ onLine
  /\ onLine' = FALSE
  /\ UNCHANGED <<keyVars, workerVars, partVars, cacheCalls, syncVars, now, serverVars, cache, swControlled,
                 pageVars, calls, scans, codec>>

\* The connection returns: navigator.onLine turns true and the 'online'
\* event is queued for the listener AgentDashboard registered.
ComesOnline ==
  /\ ~onLine
  /\ BagCardinality(syncRuns) < MaxSyncRuns
  /\ onLine' = TRUE
  /\ syncRuns' = AddRun(NewRun("event"))
  /\ UNCHANGED <<keyVars, workerVars, partVars, cacheCalls, idbBooleanKeys, offlinePermits, syncStatus, posted,
                 now, serverVars, cache, swControlled, pageVars, calls, scans,
                 codec>>

\* handleOnline, up to its first await: if (syncStatus === 'idle') {
\* setSyncStatus('syncing'); await offlineStorage.syncWithServer() ... }
HandleOnline(r) ==
  /\ r.pc = "event"
  /\ IF syncStatus = "idle"
     THEN /\ syncStatus' = "syncing"
          /\ syncRuns' = ReplaceRun(r, [r EXCEPT !.pc = "query", !.live = TRUE])
     ELSE /\ syncRuns' = DropRun(r)
          /\ UNCHANGED syncStatus
  /\ UNCHANGED <<keyVars, workerVars, partVars, cacheCalls, idbBooleanKeys, offlinePermits, posted, now,
                 serverVars, cache, onLine, swControlled, pageVars, calls,
                 scans, codec>>

\* handleSync (the sync button, disabled while syncStatus is 'syncing'), up
\* to its first await: returns at once when offline; otherwise
\* setSyncStatus('syncing') and syncWithServer().
HandleSync ==
  /\ onLine
  /\ syncStatus = "idle"
  /\ BagCardinality(syncRuns) < MaxSyncRuns
  /\ syncStatus' = "syncing"
  /\ syncRuns' = AddRun(NewRun("query"))
  /\ UNCHANGED <<keyVars, workerVars, partVars, cacheCalls, idbBooleanKeys, offlinePermits, posted, now,
                 serverVars, cache, onLine, swControlled, pageVars, calls,
                 scans, codec>>

\* The agent leaves the dashboard for another page and comes back: the new
\* AgentDashboard instance starts with syncStatus 'idle'; the syncWithServer
\* calls of the old instance go on, and its setSyncStatus calls set nothing.
DashboardRemounts ==
  /\ syncRuns # EmptyBag \/ syncStatus # "idle"
  /\ syncStatus' = "idle"
  /\ syncRuns' = BagOfAll(LAMBDA r : [r EXCEPT !.live = FALSE], syncRuns)
  /\ UNCHANGED <<keyVars, workerVars, partVars, cacheCalls, idbBooleanKeys, offlinePermits, posted,
                 now, serverVars, cache, onLine, swControlled, pageVars, calls,
                 scans, codec>>

\* The ids of a set of records, in key order.
RECURSIVE InKeyOrder(_)
InKeyOrder(S) ==
  IF S = {} THEN <<>>
  ELSE LET first == CHOOSE n \in 1..Len(OfflineIdOrder) :
                      /\ OfflineIdOrder[n] \in S
                      /\ \A m \in 1..(n - 1) : OfflineIdOrder[m] \notin S
       IN <<OfflineIdOrder[first]>> \o InKeyOrder(S \ {OfflineIdOrder[first]})

\* index.getAll(IDBKeyRange.only(false)) on the 'synced' index, where the
\* engine takes the key.
Unsynced == InKeyOrder({p.id : p \in {q \in offlinePermits : ~q.synced}})

\* getUnsyncedPermits() settles. Where IDBKeyRange.only(false) throws, the
\* promise rejects, syncWithServer rejects, and the handler's catch and
\* finally run: a toast, setSyncStatus('idle').
GetUnsyncedPermits(r) ==
  /\ r.pc = "query"
  /\ IF idbBooleanKeys = "DataError"
     THEN /\ syncRuns' = DropRun(r)
          /\ syncStatus' = IF r.live THEN "idle" ELSE syncStatus
     ELSE /\ syncRuns' = ReplaceRun(r, [r EXCEPT !.pc = "loop", !.queue = Unsynced])
          /\ UNCHANGED syncStatus
  /\ UNCHANGED <<keyVars, workerVars, partVars, cacheCalls, idbBooleanKeys, offlinePermits, posted, now,
                 serverVars, cache, onLine, swControlled, pageVars, calls,
                 scans, codec>>

\* What fetch('/api/permits', {method: 'POST', body}) gives: the route
\* answers ok, or answers 400, 401 or 500, or the fetch throws (only
\* without a connection).
PostOutcomes == {"ok", "not ok", "throws"}

\* A loop that takes any answer of the server for an acceptance.
PostPermitAnyAnswer(r, outcome) ==
  /\ r.pc = "loop" /\ r.queue # <<>>
  /\ outcome = "throws" => ~onLine
  /\ outcome = "ok" => onLine
  /\ IF outcome # "throws"
     THEN /\ posted' = [posted EXCEPT ![Head(r.queue)] =
                                        IF outcome = "ok" THEN @ + 1 ELSE @]
          /\ syncRuns' = ReplaceRun(r, [r EXCEPT !.pc = "mark"])
     ELSE /\ syncRuns' = ReplaceRun(r, [r EXCEPT !.queue = Tail(@), !.failed = @ + 1])
          /\ UNCHANGED posted
  /\ UNCHANGED <<keyVars, workerVars, partVars, cacheCalls, idbBooleanKeys, offlinePermits,
                 syncStatus, now, serverVars, cache, onLine, swControlled,
                 pageVars, calls, scans, codec>>

\* One turn of the for loop up to the response: the POST of the first
\* permit of the queue. response.ok leads to markPermitSynced; anything
\* else is counted in failed and the loop goes on.
PostPermit(r, outcome) ==
  /\ r.pc = "loop" /\ r.queue # <<>>
  /\ outcome = "throws" => ~onLine
  /\ outcome = "ok" => onLine
  /\ IF outcome = "ok"
     THEN /\ posted' = [posted EXCEPT ![Head(r.queue)] = @ + 1]
          /\ syncRuns' = ReplaceRun(r, [r EXCEPT !.pc = "mark"])
     ELSE /\ syncRuns' = ReplaceRun(r, [r EXCEPT !.queue = Tail(@), !.failed = @ + 1])
          /\ UNCHANGED posted
  /\ UNCHANGED <<keyVars, workerVars, partVars, cacheCalls, idbBooleanKeys, offlinePermits, syncStatus, now,
                 serverVars, cache, onLine, swControlled, pageVars, calls,
                 scans, codec>>

\* markPermitSynced(id): store.get(id), permit.synced = true, store.put.
markPermitSynced(store, id) ==
  {IF p.id = id THEN [p EXCEPT !.synced = TRUE] ELSE p : p \in store}

\* await this.markPermitSynced(permit.id); success++
MarkPermitSynced(r) ==
  /\ r.pc = "mark"
  /\ offlinePermits' = markPermitSynced(offlinePermits, Head(r.queue))
  /\ syncRuns' = ReplaceRun(r, [r EXCEPT !.pc = "loop", !.queue = Tail(@), !.success = @ + 1])
  /\ UNCHANGED <<keyVars, workerVars, partVars, cacheCalls, idbBooleanKeys, syncStatus, posted, now,
                 serverVars, cache, onLine, swControlled, pageVars, calls,
                 scans, codec>>

\* syncWithServer returns { success, failed }; the handler shows its toasts
\* and, in finally, setSyncStatus('idle').
SyncReturns(r) ==
  /\ r.pc = "loop" /\ r.queue = <<>>
  /\ syncRuns' = DropRun(r)
  /\ syncStatus' = IF r.live THEN "idle" ELSE syncStatus
  /\ UNCHANGED <<keyVars, workerVars, partVars, cacheCalls, idbBooleanKeys, offlinePermits, posted, now,
                 serverVars, cache, onLine, swControlled, pageVars, calls,
                 scans, codec>>

\* One step of a syncWithServer call.
SyncStep ==
  \/ \E r \in Runs : GetUnsyncedPermits(r)
  \/ \E r \in Runs : \E outcome \in PostOutcomes : PostPermit(r, outcome)
  \/ \E r \in Runs : MarkPermitSynced(r)
  \/ \E r \in Runs : SyncReturns(r)

(***************************************************************************)
(* The service worker's fetch handler for /api/ requests (sw.js).          *)
(***************************************************************************)
Methods == {"GET", "POST"}

ApiUrls == {"/api/permits", "/api/stats"}

\* The statuses the server answers with.
Statuses == {200, 404, 503}

\* response.ok
Ok(status) == status >= 200 /\ status <= 299

NoAnswer == [status |-> 0, of |-> 0, from |-> ""]

\* fetch(request) rejected.
NetworkError == [status |-> 0, of |-> 0, from |-> "rejected"]

\* new Response(JSON.stringify({error: 'Offline', ...}), {status: 503, ...})
OfflineResponse == [status |-> 503, of |-> 0, from |-> "worker"]

\* A handler that writes every GET response to the cache.
ShouldCacheGet(method, response) == method = "GET"

\* if (request.method === 'GET' && response.ok)
ShouldCache(method, response) == method = "GET" /\ Ok(response.status)

\* A 'fetch' event for an /api/ URL reaches the worker, which controls the
\* page: event.respondWith(fetch(request)...).
FetchEvent(method, url) ==
  /\ swControlled
  /\ Len(fetches) < MaxFetches
  /\ fetches' = Append(fetches,
       [method |-> method, url |-> url, pc |-> "fetch", net |-> NoAnswer,
        answer |-> NoAnswer, put |-> "no"])
  /\ UNCHANGED <<keyVars, swCache, partVars, cacheCalls, syncVars, now,
                 serverVars, cache, onLine, swControlled, pageVars, calls,
                 scans, codec>>

\* fetch(request) resolves: the response is returned to the page, and
\* caches.open(CACHE_NAME) is started if the response is to be cached.
FetchResolves(n, status) ==
  /\ n \in DOMAIN fetches /\ fetches[n].pc = "fetch"
  /\ LET response == [status |-> status, of |-> n, from |-> "network"]
     IN  fetches' = [fetches EXCEPT
           ![n].net = response, ![n].answer = response, ![n].pc = "done",
           ![n].put = IF ShouldCache(fetches[n].method, response)
                      THEN "pending" ELSE "no"]
  /\ UNCHANGED <<keyVars, swCache, partVars, cacheCalls, syncVars, now,
                 serverVars, cache, onLine, swControlled, pageVars, calls,
                 scans, codec>>

\* caches.open(CACHE_NAME).then(cache => cache.put(request, responseClone))
CachePut(n) ==
  /\ n \in DOMAIN fetches /\ fetches[n].put = "pending"
  /\ swCache' = [swCache EXCEPT ![fetches[n].url] = fetches[n].net]
  /\ fetches' = [fetches EXCEPT ![n].put = "written"]
  /\ UNCHANGED <<keyVars, partVars, cacheCalls, syncVars, now, serverVars,
                 cache, onLine, swControlled, pageVars, calls, scans, codec>>

\* fetch(request) rejects: a GET goes on to caches.match(request), any
\* other method is answered 503.
FetchRejects(n) ==
  /\ n \in DOMAIN fetches /\ fetches[n].pc = "fetch"
  /\ fetches' = IF fetches[n].method = "GET"
                THEN [fetches EXCEPT ![n].net = NetworkError,
                                     ![n].pc = "match"]
                ELSE [fetches EXCEPT ![n].net = NetworkError,
                                     ![n].answer = OfflineResponse,
                                     ![n].pc = "done"]
  /\ UNCHANGED <<keyVars, swCache, partVars, cacheCalls, syncVars, now,
                 serverVars, cache, onLine, swControlled, pageVars, calls,
                 scans, codec>>

\* caches.match(request) resolves: the cached response, or 503 if there is
\* none.
MatchResolves(n) ==
  /\ n \in DOMAIN fetches /\ fetches[n].pc = "match"
  /\ LET response == swCache[fetches[n].url]
     IN  fetches' = [fetches EXCEPT
           ![n].answer = IF response # NoAnswer
                         THEN [response EXCEPT !.from = "cache"]
                         ELSE OfflineResponse,
           ![n].pc = "done"]
  /\ UNCHANGED <<keyVars, swCache, partVars, cacheCalls, syncVars, now,
                 serverVars, cache, onLine, swControlled, pageVars, calls,
                 scans, codec>>

(***************************************************************************)
(* Specifications.                                                         *)
(***************************************************************************)
\* The environment supplies both keys (QR_PRIVATE_KEY and QR_PUBLIC_KEY, the
\* halves of one pair) or neither.
InitSystem ==
  /\ \E k \in {NoKey, EnvKeyPair} : envPrivate = k /\ envPublic = k
  /\ now = 0
  /\ permits = {} /\ cards = {} /\ scanLogs = <<>>
  /\ cache = {}
  /\ onLine = TRUE
  /\ swControlled = FALSE
  /\ mounted = FALSE /\ qrcode = "null" /\ cbProcessing = FALSE
  /\ isProcessing = FALSE /\ isScanning = FALSE /\ scanResult = NoResult
  /\ calls = {} /\ scans = 0
  /\ offlinePermits = {} /\ syncStatus = "idle" /\ syncRuns = EmptyBag
  /\ posted = [id \in OfflineIds |-> 0]
  /\ cacheCalls = <<>>
  /\ parts = {} /\ deleted = {}
  /\ swCache = [url \in ApiUrls |-> NoAnswer] /\ fetches = <<>>

Init == InitSystem /\ codec = CodecIdle /\ idbBooleanKeys = "DataError"

\* The server and the device around one scanner page.
Environment ==
  \/ \E exp \in ExpDates :
       Cardinality(permits) < MaxPermits /\ CreatePermit(FreshId, exp)
  \/ \E d \in {1, maxAge - 1} : Tick(d)
  \/ \E p \in permits : CachePermit(p)
  \/ \E b \in BOOLEAN : SetOnLine(b)
  \/ ServiceWorkerClaims

\* One verifyQRCode call running to its result.
Verification ==
  \/ \E c \in calls : ServerAnswers(c)
  \/ \E c \in calls : ServerStoreFails(c)
  \/ \E c \in calls : NetworkFails(c)
  \/ \E c \in calls : OfflineVerify(c)
  \/ \E c \in calls : FinishScan(c)

Page == Mount \/ StopCompletes \/ ScanAgain \/ Close

\* The camera scanner delivers a decode only while it runs: stop() ends the
\* scan loop before it returns.
Next ==
  \/ Environment
  \/ Verification
  \/ Page
  \/ \E text \in ScanTexts :
       scans < MaxScans /\ qrcode = "running" /\ HandleScanSuccess(text)

Spec == Init /\ [][Next]_vars

\* The camera scanner may deliver a further decode before stop() has
\* resolved; the server's records and the device's surroundings stay put.
NextScan ==
  \/ \E exp \in ExpDates :
       Cardinality(permits) < MaxPermits /\ CreatePermit(FreshId, exp)
  \/ Verification
  \/ Page
  \/ \E text \in ScanTexts : scans < MaxRapidScans /\ HandleScanSuccess(text)

SpecScan == Init /\ [][NextScan]_vars

\* A device in the field: it scans any code, online or offline, and its
\* local store may fail; the clock stands still.
NextField ==
  \/ \E exp \in ExpDates :
       Cardinality(permits) < MaxPermits /\ CreatePermit(FreshId, exp)
  \/ \E p \in permits : CachePermit(p)
  \/ \E b \in BOOLEAN : SetOnLine(b)
  \/ ServiceWorkerClaims
  \/ Verification
  \/ \E c \in calls : OfflineStoreFails(c)
  \/ Page
  \/ \E text \in ScanTexts \cup MalformedTexts :
       scans < MaxScans /\ qrcode = "running" /\ HandleScanSuccess(text)

SpecField == Init /\ [][NextField]_vars

\* One scan on a device whose network may stay silent.  What the device
\* itself runs next always runs: the continuation of verifyQRCode after a
\* settled fetch, and the continuation of handleScanSuccess after
\* verifyQRCode returned.  Nothing obliges the network to settle the fetch.
NextWait ==
  \/ \E exp \in ExpDates :
       Cardinality(permits) < MaxPermits /\ CreatePermit(FreshId, exp)
  \/ \E p \in permits : CachePermit(p)
  \/ Verification
  \/ Mount
  \/ StopCompletes
  \/ \E text \in ScanTexts :
       scans < MaxScans /\ qrcode = "running" /\ HandleScanSuccess(text)

SpecWait ==
  /\ Init /\ [][NextWait]_vars
  /\ WF_vars(\E c \in calls : OfflineVerify(c))
  /\ WF_vars(\E c \in calls : FinishScan(c))

\* The printed cards.
CardTexts == {ToURI(c.qrPayload, c.qrSignature) : c \in cards}

\* Cards scanned again and again, online, while time passes.
NextRescan ==
  \/ \E exp \in ExpDates :
       Cardinality(permits) < MaxPermits /\ CreatePermit(FreshId, exp)
  \/ \E p \in permits : CachePermit(p)
  \/ \E d \in {1, maxAge - 1} : Tick(d)
  \/ Verification
  \/ Page
  \/ \E text \in CardTexts :
       scans < MaxRescans /\ qrcode = "running" /\ HandleScanSuccess(text)

SpecRescan == Init /\ [][NextRescan]_vars

\* The scanner page with an operator who scans, dismisses results and
\* leaves as they please. What the page schedules by itself runs to its
\* end: the offline verification, the continuation of handleScanSuccess
\* and the settling of stop(). The server's answer is not constrained.
SpecOperator ==
  /\ Init /\ [][NextRescan]_vars
  /\ WF_vars(\E c \in calls : OfflineVerify(c))
  /\ WF_vars(\E c \in calls : FinishScan(c))
  /\ WF_vars(StopCompletes)

\* Altered copies of the printed cards presented to the server.
NextTamper ==
  \/ \E exp \in ExpDates :
       Cardinality(permits) < MaxPermits /\ CreatePermit(FreshId, exp)
  \/ Verification
  \/ Page
  \/ \E text \in TamperedTexts :
       scans < MaxScans /\ qrcode = "running" /\ HandleScanSuccess(text)

SpecTamper == Init /\ [][NextTamper]_vars

\* Permits are issued, some requests failing at the signature, while time
\* passes and cards are scanned.
NextIssue ==
  \/ NextRescan
  \/ \E exp \in ExpDates :
       Cardinality(Issued) < MaxPermits /\ CreatePermitSigningFails(FreshId, exp)

SpecIssue == Init /\ [][NextIssue]_vars

\* Permits are created and deleted while their printed cards are scanned
\* online.
NextDelete ==
  \/ \E exp \in ExpDates :
       Cardinality(Issued) < MaxPermits /\ CreatePermit(FreshId, exp)
  \/ \E p \in permits : DeletePermit(p.id)
  \/ \E d \in {1, maxAge - 1} : Tick(d)
  \/ Verification
  \/ Page
  \/ \E text \in CardTexts \cup DeletedTexts :
       scans < MaxRescans /\ qrcode = "running" /\ HandleScanSuccess(text)

SpecDelete == Init /\ [][NextDelete]_vars

\* One credential: any two base64 texts as payload and signature.
InitURI ==
  /\ InitSystem /\ envPrivate = NoKey /\ idbBooleanKeys = "DataError"
  /\ \E p \in B64Texts, s \in B64Texts :
       codec = [CodecIdle EXCEPT !.payload = p, !.signature = s,
                                 !.step = "credential"]

NextURI == CodecBuild \/ CodecParse

SpecURI == InitURI /\ [][NextURI]_vars

\* The payload codec: a credential is made for one record id at some time
\* and its payload is decoded again.
NextCodec ==
  \/ \E d \in {1, maxAge - 1} : Tick(d)
  \/ \E id \in PayloadIds : CodecSign(id)
  \/ CodecDecode

SpecCodec == Init /\ [][NextCodec]_vars

\* The verification cache on its own: any sequence of cachePermit and
\* getCachedPermit calls.
NextCache ==
  \/ \E permit \in Snapshots : CachePermitCall(permit)
  \/ \E permit \in Snapshots : GetCachedPermitCall(<<permit.id>>)

SpecCache == Init /\ [][NextCache]_vars

\* One record id issued twice in one process, at once or after some time.
NextReissue ==
  \/ \E d \in {1, maxAge - 1} : Tick(d)
  \/ \E id \in PayloadIds : CodecSign(id)
  \/ CodecReissue

SpecReissue == Init /\ [][NextReissue]_vars

\* The agent's device from offline data entry to synchronisation, on
\* either kind of engine. The 'online' handler and every step of a
\* syncWithServer call are scheduled fairly; the connection, the agent and
\* the answers of the server are not constrained.
InitSync ==
  /\ InitSystem /\ envPrivate = NoKey /\ codec = CodecIdle
  /\ idbBooleanKeys \in IdbEngines

NextSync ==
  \/ SavePermit
  \/ GoesOffline
  \/ ComesOnline
  \/ \E r \in Runs : HandleOnline(r)
  \/ HandleSync
  \/ DashboardRemounts
  \/ SyncStep

SpecSync ==
  /\ InitSync /\ [][NextSync]_vars
  /\ WF_vars(\E r \in Runs : HandleOnline(r))
  /\ WF_vars(SyncStep)

\* The service worker between the page and the server: /api/ requests of
\* either method, answered by the server or not at all.
NextWorker ==
  \/ ServiceWorkerClaims
  \/ \E method \in Methods, url \in ApiUrls : FetchEvent(method, url)
  \/ \E n \in DOMAIN fetches : \E status \in Statuses : FetchResolves(n, status)
  \/ \E n \in DOMAIN fetches : CachePut(n)
  \/ \E n \in DOMAIN fetches : FetchRejects(n)
  \/ \E n \in DOMAIN fetches : MatchResolves(n)

SpecWorker == Init /\ [][NextWorker]_vars

(***************************************************************************)
(* Properties.                                                             *)
(***************************************************************************)
\* The issue time a card's payload carries.
IssuedAt(card) == JSONparse(Base64Decode(card.qrPayload)).ts

\* The card's signature verifies over the card's payload under PUBLIC_KEY.
CorrectlySigned(card) ==
  CryptoVerify(Base64Decode(card.qrPayload), PUBLIC_KEY,
               Base64Decode(card.qrSignature))

\* The signature a scanned text presents verifies over the payload bytes it
\* presents, under the public key.
PresentedSignatureVerifies(text) ==
  /\ URLValid(text)
  /\ ~Falsy(SearchParamsGet(text, "d")) /\ ~Falsy(SearchParamsGet(text, "s"))
  /\ CryptoVerify(Base64Decode(SearchParamsGet(text, "d")), PUBLIC_KEY,
                  Base64Decode(SearchParamsGet(text, "s")))

\* The online call of c failed for a reason that is no verdict on the code:
\* the fetch rejected, the service worker answered 503, the route's catch
\* answered 500.
InfrastructureFailure(c) == c.online.status \in {-1, 500, 503}

\* c got an answer on the online path or ran the offline path, and has its
\* result.
Completed(c) == c.pc = "return" /\ (c.online.status > 0 \/ c.offlineRuns > 0)

\* C1: whichever way the keys were initialised, every issued credential
\* verifies under the published public key while it is fresh, and
\* verifyQRSignature returns its payload, with the id it was issued for.
C1_IssuedCredentialVerifies ==
  \A k \in cards :
    now - IssuedAt(k) <= maxAge =>
      verifyQRSignature(k.qrPayload, k.qrSignature, now)
        = [id |-> k.permitId, ts |-> IssuedAt(k), v |-> 1]

\* C2: a scan is classified valid or expired, on either path, only if the
\* presented signature verifies over the presented payload.
C2_ValidOnlyIfSignatureVerifies ==
  \A c \in calls :
    c.pc = "return" /\ c.result.result \in {"valid", "expired"}
      => PresentedSignatureVerifies(c.qrData)

\* C3: after an infrastructure failure of the online call, verifyQRCode
\* has run the offline verification once before it returns.
C3_InfrastructureFailureFallsBack ==
  \A c \in calls :
    c.pc = "return" /\ InfrastructureFailure(c) => c.offlineRuns = 1

\* C4: a call the authority answered with result invalid does not go on
\* to the offline verification.
C4_VerificationFailureIsTerminal ==
  \A c \in calls :
    c.online.result = "invalid" => c.pc = "return" /\ c.offlineRuns = 0

\* C5: every completed verification has written exactly one scan log.
C5_OneScanLogPerVerification ==
  \A c \in calls : Completed(c) => c.logs = 1

\* C6: at most one verifyQRCode call is still on its way to a result.
C6_OneVerificationInFlight ==
  Cardinality({c \in calls : c.pc # "return"}) <= 1

\* C7: the offline verification of an issued card whose record is in the
\* cache gives the result and the record the online route gives for it at
\* that moment.
C7_OfflineEqualsOnline ==
  \A c \in calls : \A k \in cards :
    /\ c.pc = "return" /\ c.offlineRuns = 1 /\ c.at = now
    /\ c.qrData = ToURI(k.qrPayload, k.qrSignature)
    /\ getCachedPermit(<<k.permitId>>) = getPermit(k.permitId)
    /\ VerifyResponse(c.qrData).status = 200
    => /\ c.result.result = VerifyResponse(c.qrData).result
       /\ c.result.permit = VerifyResponse(c.qrData).permit

\* C8: verifyQRSignature returns null for a correctly signed credential
\* issued maxAge + 1 ms ago and returns the payload of one issued
\* maxAge - 1 ms ago.
C8_FreshnessBoundary ==
  \A k \in cards :
    CorrectlySigned(k) =>
      /\ now = IssuedAt(k) + maxAge + 1
           => verifyQRSignature(k.qrPayload, k.qrSignature, now) = Null
      /\ now = IssuedAt(k) + maxAge - 1
           => verifyQRSignature(k.qrPayload, k.qrSignature, now) # Null

\* The route has answered invalid for a correctly signed card that was
\* issued maxAge + 1 ms before.
C8_Witness ==
  \E c \in calls : \E k \in cards :
    /\ CorrectlySigned(k)
    /\ c.qrData = ToURI(k.qrPayload, k.qrSignature)
    /\ c.at = now /\ now = IssuedAt(k) + maxAge + 1
    /\ c.online.status = 400 /\ c.online.result = "invalid"

\* The record a call's result rests on, with the time it was classified
\* at and the result: from the online answer, or from the offline run.
Classifications ==
  {[result |-> c.online.result, expiration |-> c.online.permit.dateExpiration,
    at |-> c.at] : c \in {x \in calls : x.online.status = 200}}
  \cup
  {[result |-> c.result.result, expiration |-> c.result.permit.dateExpiration,
    at |-> c.at] : c \in {x \in calls : x.offlineRuns = 1 /\ x.result.permit # NoRecord}}

\* C9 as stated: with the record resolved the result is expired when the
\* expiration date is before now and valid otherwise, on both paths.
C9_ExpiredWhenBefore ==
  \A x \in Classifications :
    x.result = IF x.expiration < x.at THEN "expired" ELSE "valid"

\* C9 amended: with the record resolved the result is expired when the
\* expiration date is at or before now and valid otherwise, on both paths.
C9_ExpiredWhenNotAfter ==
  \A x \in Classifications :
    x.result = IF x.expiration <= x.at THEN "expired" ELSE "valid"

\* The route has classified a correctly signed, fresh credential whose
\* record expires at this very millisecond.
C9_Witness ==
  \E c \in calls :
    /\ c.online.status = 200 /\ c.online.result = "expired"
    /\ c.online.permit.dateExpiration = c.at
    /\ PresentedSignatureVerifies(c.qrData)

\* C10: the d and s parameters parsed from the card URI are the payload
\* and the signature the URI was built from.
C10_URIRoundTrip ==
  codec.step = "parsed"
    => codec.d = codec.payload /\ codec.s = codec.signature

\* The text is a card URI: scheme and host are exactly the fixed ones and
\* both parameters are there.
WellFormedURI(text) ==
  /\ URLValid(text)
  /\ URLprotocol(text) = "peche:" /\ URLhostname(text) = "verify"
  /\ SearchParamsGet(text, "d") # Absent /\ SearchParamsGet(text, "s") # Absent

\* C11: a scanned text whose scheme or host is not exactly the fixed one, or
\* that lacks the d or the s parameter, is never classified valid or
\* expired by verifyQRCode.
C11_MalformedNeverAccepted ==
  \A c \in calls :
    c.pc = "return" /\ ~WellFormedURI(c.qrData)
      => c.result.result \notin {"valid", "expired"}

\* C12: a verifyQRCode call that has sent its request returns a result,
\* whether or not the network ever answers.
C12_OnlineCallTimesOut ==
  \A n \in 1..(MaxScans + 1) :
    (\E c \in calls : c.n = n /\ c.pc = "fetch")
      ~> (\E c \in calls : c.n = n /\ c.pc = "return")

Terminal(r) == r.result \in {"valid", "expired", "invalid"} /\ r.message # ""

\* C13: every verifyQRCode call that has returned, after whatever answer or
\* failure of the network call and of the cache lookup, returned one of
\* valid, expired, invalid with a message, and that is what the page shows.
C13_TerminalResult ==
  /\ \A c \in calls : c.pc = "return" => Terminal(c.result)
  /\ scanResult # NoResult => Terminal(scanResult)

\* A call has returned after the network call failed and the cache lookup
\* failed too.
C13_Witness ==
  \E c \in calls :
    /\ c.pc = "return" /\ c.online.status \in {500, 503} /\ c.offlineRuns = 1
    /\ c.result.message = "Erreur lors de la verification hors ligne"

\* C14: once verifyQRCode has returned valid or expired from the online
\* path, the device's cache holds the record that was verified.
C14_OnlineSuccessCachesRecord ==
  \A c \in calls :
    c.pc = "return" /\ c.online.status = 200
      => \E p \in permits :
           /\ PermitOut(p) = c.online.permit
           /\ getCachedPermit(<<p.id>>) = {p}

\* The text presents a payload that decodes to a QRPayload.
PresentsPayload(text) ==
  /\ URLValid(text) /\ ~Falsy(SearchParamsGet(text, "d"))
  /\ JSONvalid(Base64Decode(SearchParamsGet(text, "d")))

\* The record id the presented payload names.
RecordIdOf(text) == JSONparse(Base64Decode(SearchParamsGet(text, "d"))).id

\* C15: the offline verification of a credential looks the cache up by the
\* credential's record id, and a lookup that finds nothing gives invalid
\* with the not-cached message and no record.
C15_LookupByRecordId ==
  \A c \in calls :
    c.pc = "return" /\ c.offlineRuns = 1 /\ PresentsPayload(c.qrData)
      => /\ c.key = <<RecordIdOf(c.qrData)>>
         /\ c.result.message = "Permit non trouve en cache local"
              => c.result.result = "invalid" /\ c.result.permit = NoRecord

\* The permit a scan log's card belongs to.
PermitOfLog(l) == CHOOSE p \in permits : CardIdOf(p.id) = l.cardId

\* Two scan logs of one card whose record had the same validity at both
\* scans.
SameCodeSameValidity(a, b) ==
  /\ a.cardId = b.cardId /\ a.cardId # NullCardId
  /\ Expired(PermitOfLog(a).dateExpiration, a.scanDate)
       = Expired(PermitOfLog(b).dateExpiration, b.scanDate)

\* A step that writes a scan log appends one entry and leaves the permits,
\* the cards and the cache as they were.
ScanLogStep ==
  scanLogs' # scanLogs
    => /\ Len(scanLogs') = Len(scanLogs) + 1
       /\ SubSeq(scanLogs', 1, Len(scanLogs)) = scanLogs
       /\ UNCHANGED <<permits, cards, cache>>

RescanLogs ==
  \A i, j \in 1..Len(scanLogs) :
    i < j /\ SameCodeSameValidity(scanLogs[i], scanLogs[j])
      => /\ scanLogs[i].result = scanLogs[j].result
         /\ scanLogs[i].id # scanLogs[j].id
         /\ scanLogs[i].scanDate <= scanLogs[j].scanDate

RouteAnswered(c) == c.online.status \in {200, 400, 404}

\* C17 as stated: a pair that differs from an issued credential in one
\* character of the payload or of the signature is answered invalid by the
\* online path.
C17_AnyAlteredCharacterRejected ==
  \A c \in {a \in calls : RouteAnswered(a)} :
    \A k \in cards : \A x \in TamperedCredentials(k) :
      c.qrData = ToURI(x.payload, x.signature)
        => c.online.status = 400 /\ c.online.result = "invalid"

\* C17 on the decoded bytes: a pair whose decoded payload bytes or decoded
\* signature bytes differ from those of the issued credential it was made
\* from is answered invalid by the online path.
C17_AlteredBytesRejected ==
  \A c \in {a \in calls : RouteAnswered(a)} :
    \A k \in cards : \A x \in TamperedCredentials(k) :
      /\ c.qrData = ToURI(x.payload, x.signature)
      /\ \/ Base64Decode(x.payload) # Base64Decode(k.qrPayload)
         \/ Base64Decode(x.signature) # Base64Decode(k.qrSignature)
      => c.online.status = 400 /\ c.online.result = "invalid"

\* C17: the route has rejected a correctly signed card whose payload was
\* altered to name another record.
C17_Witness ==
  \E c \in calls : \E k \in cards : \E i \in 2..Len(k.qrPayload) :
    /\ CorrectlySigned(k) /\ k.qrPayload[i] = k.permitId
    /\ \E a \in TamperAtoms \ {k.permitId} :
         c.qrData = ToURI(Alter(k.qrPayload, i, a), k.qrSignature)
    /\ c.online.status = 400 /\ c.online.result = "invalid"

\* A permit saved offline that the store holds as synced, or not yet.
IsSynced(id) == \E p \in offlinePermits : p.id = id /\ p.synced

IsUnsynced(id) == \E p \in offlinePermits : p.id = id /\ ~p.synced

\* C18: if the connection returns and stays, every permit saved offline is
\* eventually marked synced.
C18_OfflinePermitEventuallySynced ==
  <>[](onLine = TRUE) => \A id \in OfflineIds : IsUnsynced(id) ~> IsSynced(id)

\* The versions a payload can carry in the model: the positive numbers it
\* writes in decimal.
Versions == {n \in Times \cup {1} : n > 0}

\* The payload encoding of generateQRPayload and the decoding of
\* verifyQRSignature, applied one after the other.
RoundTrip(q) == JSONparse(Base64Decode(Base64Encode(JSONstringify(q))))

C20_EmptyRecordIdRefused ==
  codec.step \in {"signed", "decoded"} => codec.id # ""

\* The page after a result was dismissed: mounted, no result shown, no
\* verification under way, at least one code verified before.
ResultDismissed ==
  /\ mounted /\ scans > 0 /\ calls = {}
  /\ scanResult = NoResult /\ ~isProcessing

\* C21: once the operator has dismissed a result the camera scanner runs
\* again (unless the operator leaves the page).
C21_RescanRestartsScanner ==
  ResultDismissed ~> (qrcode = "running" \/ ~mounted)

\* The message the route gives for a pair the public key does not verify.
SignatureFailureMessage == VerifyResponse(ToURI(<<"A">>, <<"A">>)).message

\* C22: the route answers a correctly signed credential that is older than
\* maxAge with invalid and with a message other than the one it gives for a
\* signature that does not verify.
C22_StaleMessageDistinct ==
  \A c \in calls : \A k \in cards :
    /\ CorrectlySigned(k)
    /\ c.qrData = ToURI(k.qrPayload, k.qrSignature)
    /\ RouteAnswered(c)
    /\ Stale(c.at, IssuedAt(k))
    => /\ c.online.result = "invalid"
       /\ c.online.message # SignatureFailureMessage

LastPut(n, id) ==
  LET puts == {i \in 1..n : cacheCalls[i].op = "put" /\ cacheCalls[i].id = id}
  IN IF puts = {} THEN {}
     ELSE cacheCalls[CHOOSE i \in puts : \A j \in puts : j <= i].data

\* Every getCachedPermit made so far resolved to the argument of the most
\* recent cachePermit of that id before it, and to null if there was none;
\* the cache holds, for each id, exactly that argument.
CacheReturnsLastPut ==
  /\ \A i \in 1..Len(cacheCalls) :
       cacheCalls[i].op = "get"
         => cacheCalls[i].data = LastPut(i - 1, cacheCalls[i].id)
  /\ \A permit \in Snapshots :
       getCachedPermit(<<permit.id>>) = LastPut(Len(cacheCalls), <<permit.id>>)

\* A step that is a getCachedPermit call leaves the cache as it is.
GetLeavesCache ==
  (Len(cacheCalls') = Len(cacheCalls) + 1
     /\ cacheCalls'[Len(cacheCalls')].op = "get") => cache' = cache

\* C24: getCachedPermit(id) returns the record of the most recent
\* cachePermit of that id, whole, null if there was none, and changes no
\* entry.
C24_CachePutGet == []CacheReturnsLastPut /\ [][GetLeavesCache]_vars

\* C24: a record id was cached with one snapshot, then with another, and
\* the lookup returned the second.
C24_Witness ==
  Len(cacheCalls) = 3
    /\ cacheCalls[1].op = "put" /\ cacheCalls[2].op = "put"
    /\ cacheCalls[3].op = "get"
    /\ cacheCalls[1].id = cacheCalls[3].id /\ cacheCalls[2].id = cacheCalls[3].id
    /\ cacheCalls[1].data # cacheCalls[2].data
    /\ cacheCalls[3].data = cacheCalls[2].data

\* The issue time the payload a text presents carries.
IssuedAtOf(text) == JSONparse(Base64Decode(SearchParamsGet(text, "d"))).ts

SyncedOnlyAfterOk ==
  \A p \in offlinePermits : p.synced => posted[p.id] >= 1

\* A synced permit stays synced.
SyncedStays ==
  \A p \in offlinePermits :
    p.synced => \E q \in offlinePermits' : q.id = p.id /\ q.synced

\* A turn of the loop that leaves the permit without marking it (the POST
\* was not ok, or the fetch threw) counts it in failed, leaves the store as
\* it is and goes on with the rest of the permits.
FailedTurn ==
  \A r \in Runs : \A r2 \in BagToSet(syncRuns') :
    /\ syncRuns' = ReplaceRun(r, r2)
    /\ r.pc = "loop" /\ r.queue # <<>>
    /\ r2.queue = Tail(r.queue)
    => /\ r2.failed = r.failed + 1 /\ r2.success = r.success
       /\ r2.pc = "loop"
       /\ offlinePermits' = offlinePermits

\* C27: synced is set only after an ok answer to the POST of that permit
\* and is never unset; a permit whose POST failed or threw stays unsynced
\* and is counted in failed, and the loop goes on.
C27_SyncedOnlyAfterOk ==
  []SyncedOnlyAfterOk /\ [][SyncedStays /\ FailedTurn]_vars

\* C27: one syncWithServer call has counted a permit in failed and left it
\* unsynced, and has then synced another.
C27_Witness ==
  \E r \in Runs :
    /\ r.failed = 1 /\ r.success = 1 /\ r.queue = <<>>
    /\ IsUnsynced(OfflineIdOrder[1]) /\ IsSynced(OfflineIdOrder[2])
    /\ posted[OfflineIdOrder[1]] = 0 /\ posted[OfflineIdOrder[2]] = 1

\* Nothing is left of a deleted permit: no permit, card, vessel, technique
\* or media entry carries its id.
DeletedGone ==
  \A k \in deleted :
    /\ getPermit(k.permitId) = {}
    /\ getCardByPermitId(k.permitId) = {}
    /\ \A x \in parts : x.permitId # k.permitId

\* A request for the card of a deleted permit that the route answers is not
\* answered valid or expired, and the scan log stays as it is.
AnsweredAfterDelete ==
  \A c \in calls : \A c2 \in calls' :
    /\ c.n = c2.n /\ c.pc = "fetch" /\ RouteAnswered(c2)
    /\ c.qrData \in DeletedTexts
    => /\ c2.online.result \notin {"valid", "expired"}
       /\ scanLogs' = scanLogs

\* C28: after deletePermit(R) nothing references R, getPermit(R) is
\* undefined, and the online verification of a credential issued for R is
\* neither valid nor expired and writes no scan log.
C28_DeletedPermitNotVerified ==
  []DeletedGone /\ [][AnsweredAfterDelete]_vars

\* C28: the card of a deleted permit, correctly signed and fresh, was
\* scanned online after the deletion and the route answered 404.
C28_Witness ==
  \E c \in calls : \E k \in deleted :
    /\ c.qrData = ToURI(k.qrPayload, k.qrSignature)
    /\ CorrectlySigned(k) /\ ~Stale(c.at, IssuedAt(k))
    /\ c.online.status = 404 /\ c.online.result = "invalid"
    /\ c.logs = 0

\* C29: every permit in the store has exactly one card, and the payload of
\* that card decodes to the id of the permit.
C29_EveryPermitHasItsCard ==
  \A p \in permits :
    /\ Cardinality(getCardByPermitId(p.id)) = 1
    /\ \A c \in getCardByPermitId(p.id) :
         /\ JSONvalid(Base64Decode(c.qrPayload))
         /\ JSONparse(Base64Decode(c.qrPayload)).id = p.id

\* What the worker has answered a request with is the network's response
\* whenever the network gave one; a cached response only answers a GET
\* whose fetch was rejected; a rejected request of another method is
\* answered with the worker's 503 and nothing of it is put in the cache.
AnsweredNetworkFirst ==
  \A n \in DOMAIN fetches :
    LET f == fetches[n]
    IN  /\ f.answer.from = "cache" => f.net = NetworkError /\ f.method = "GET"
        /\ f.pc = "done" /\ f.net # NetworkError => f.answer = f.net
        /\ f.pc = "done" /\ f.method # "GET" /\ f.net = NetworkError
             => f.answer = OfflineResponse
        /\ f.method # "GET" => f.put = "no"

\* Every cache entry is the ok response the network gave to a GET of that
\* URL.
OnlyOkGetCached ==
  \A url \in ApiUrls :
    LET e == swCache[url]
    IN  e # NoAnswer =>
          /\ e.from = "network" /\ Ok(e.status)
          /\ e.of \in DOMAIN fetches
          /\ fetches[e.of].method = "GET" /\ fetches[e.of].url = url
          /\ fetches[e.of].net = e

\* C30: the service worker is network-first for /api/ requests: it answers
\* from its cache only a GET whose network fetch failed, it caches only ok
\* GET responses, and a non-GET request whose fetch fails is answered 503
\* and is neither cached nor served from the cache.
C30_NetworkFirst == AnsweredNetworkFirst /\ OnlyOkGetCached

\* C30: a GET whose fetch failed has been answered from the cache, and a
\* POST whose fetch failed has been answered 503.
C30_Witness ==
  /\ \E n \in DOMAIN fetches :
       fetches[n].pc = "done" /\ fetches[n].answer.from = "cache"
  /\ \E n \in DOMAIN fetches :
       /\ fetches[n].method = "POST" /\ fetches[n].net = NetworkError
       /\ fetches[n].answer = OfflineResponse

====
